---- MODULE Spec2Model ----
(***************************************************************************)
(* HeightMap of vs/base/parts/tree/browser/treeViewModel.ts: an ordered    *)
(* sequence of view rows (model id, top, height) plus the id -> slot       *)
(* table `indexes`, with the bulk operations onInsertItems, onRemoveItems, *)
(* onRefreshItems / onRefreshItemSet and the binary search indexAt.        *)
(*                                                                         *)
(* Slots are 0-based as in the source; a TLA+ sequence is 1-based, so the  *)
(* row of slot s is heightMap[s + 1].                                      *)
(***************************************************************************)
EXTENDS Integers, Sequences, FiniteSets, TLC

MaxHeight == 1
MaxRows == 3
MaxItems == 2

\* Item ids are strings; three of them name the items of the model layer.
Ids == {"a", "b", "c"}
Heights == 0..MaxHeight
\* afterItemId = null
Null == "null"
\* null in a slot variable (startIndex, j) and undefined (a missing key or
\* slot, a void result); neither is a slot or a height.
NoSlot == 0 - 1
Undefined == 0 - 2

\* A model Item as the height map sees it: its id and what getHeight() returns.
Items == [id : Ids, height : Heights]

\* disposed stands for heightMap = null and indexes = null (after dispose());
\* the two variables are then left empty and no call reads them.
VARIABLES heightMap, indexes, last, disposed

vars == <<heightMap, indexes, last, disposed>>

----------------------------------------------------------------------------
\* Helpers for the JavaScript object `indexes` and the array `heightMap`.

EmptyIndexes == [x \in {} |-> 0]

\* this.indexes[k] = v
Put(idx, k, v) == [x \in (DOMAIN idx) \cup {k} |-> IF x = k THEN v ELSE idx[x]]

\* delete this.indexes[k]
Delete(idx, k) == [x \in (DOMAIN idx) \ {k} |-> idx[x]]

\* this.indexes[k], undefined when k is not a key
Lookup(idx, k) == IF k \in DOMAIN idx THEN idx[k] ELSE Undefined

\* this.heightMap[s] is an object (truthy) exactly for 0 <= s < length
HasSlot(hm, s) == s >= 0 /\ s < Len(hm)

\* Array.prototype.splice(start, deleteCount) for 0 <= start <= length:
\* deleteCount is clamped to 0 .. length - start.
Clamp(n, lo, hi) == IF n < lo THEN lo ELSE IF n > hi THEN hi ELSE n

SpliceOut(hm, start, deleteCount) ==
    LET c == Clamp(deleteCount, 0, Len(hm) - start)
    IN  SubSeq(hm, 1, start) \o SubSeq(hm, start + c + 1, Len(hm))

\* Array.prototype.splice(start, 0, ...rows)
SpliceIn(hm, start, rows) ==
    SubSeq(hm, 1, start) \o rows \o SubSeq(hm, start + 1, Len(hm))

\* One call of an observer hook (or one emitted event), with what the
\* observer can read at that moment: the row, its slot, and indexes[row id].
Event(hook, viewItem, slot, idx, needsRender) ==
    [hook |-> hook, id |-> viewItem.id, top |-> viewItem.top,
     height |-> viewItem.height, slot |-> slot,
     index |-> Lookup(idx, viewItem.id), needsRender |-> needsRender]

----------------------------------------------------------------------------
\* getTotalHeight
getTotalHeight(hm) ==
    IF Len(hm) = 0 THEN 0 ELSE hm[Len(hm)].top + hm[Len(hm)].height

\* createViewItem is abstract in HeightMap; the row it makes carries the
\* item and the item's height, top is set by the caller.
createViewItem(item) == [id |-> item.id, top |-> 0, height |-> item.height]

----------------------------------------------------------------------------
\* onInsertItems

\* while (item = iterator.next()) { ... }
RECURSIVE InsertScan(_, _, _, _, _, _, _, _)
InsertScan(items, k, i, totalSize, sizeDiff, idx, itemsToInsert, events) ==
    IF k > Len(items)
    THEN [i |-> i, sizeDiff |-> sizeDiff, idx |-> idx,
          itemsToInsert |-> itemsToInsert, events |-> events]
    ELSE LET viewItem == [createViewItem(items[k]) EXCEPT !.top = totalSize + sizeDiff]
         IN  InsertScan(items, k + 1, i + 1, totalSize,
                        sizeDiff + viewItem.height,
                        Put(idx, items[k].id, i),
                        Append(itemsToInsert, viewItem),
                        Append(events, Event("create", viewItem, i, idx, FALSE)))

\* Mutant: the rows behind the insertion are renumbered but not moved.
RECURSIVE InsertShift_NoMove(_, _, _, _)
InsertShift_NoMove(hm, idx, j, sizeDiff) ==
    IF j >= Len(hm)
    THEN [hm |-> hm, idx |-> idx]
    ELSE InsertShift_NoMove(hm, Put(idx, hm[j + 1].id, j), j + 1, sizeDiff)

\* for (j = i; j < this.heightMap.length; j++) { top += sizeDiff; indexes[id] = j }
RECURSIVE InsertShift(_, _, _, _)
InsertShift(hm, idx, j, sizeDiff) ==
    IF j >= Len(hm)
    THEN [hm |-> hm, idx |-> idx]
    ELSE LET viewItem == [hm[j + 1] EXCEPT !.top = @ + sizeDiff]
         IN  InsertShift([hm EXCEPT ![j + 1] = viewItem],
                         Put(idx, viewItem.id, j), j + 1, sizeDiff)

\* Mutant: onInsertItem is called in input order (j = 0; j < length; j++).
InsertHooks_Forward(itemsToInsert, i0, idx) ==
    [k \in 1..Len(itemsToInsert) |->
        Event("insert", itemsToInsert[k], i0 + k - 1, idx, FALSE)]

\* for (j = itemsToInsert.length - 1; j >= 0; j--) this.onInsertItem(itemsToInsert[j])
InsertHooks(itemsToInsert, i0, idx) ==
    [k \in 1..Len(itemsToInsert) |->
        LET j == Len(itemsToInsert) - k
        IN  Event("insert", itemsToInsert[j + 1], i0 + j, idx, FALSE)]

\* Mutant: onRefreshItem is called in ascending order (j = i; j < length; j++).
InsertRefreshHooks_Ascending(hm, i, idx) ==
    [k \in 1..(Len(hm) - i) |->
        Event("refresh", hm[i + k], i + k - 1, idx, FALSE)]

\* for (j = this.heightMap.length - 1; j >= i; j--) this.onRefreshItem(this.heightMap[j])
InsertRefreshHooks(hm, i, idx) ==
    [k \in 1..(Len(hm) - i) |->
        LET j == Len(hm) - k
        IN  Event("refresh", hm[j + 1], j, idx, FALSE)]

\* Lines 55-85: the insertion at slot i0 of rows that start at totalSize.
InsertAt(hm, idx, items, i0, totalSize) ==
    LET scan == InsertScan(items, 1, i0, totalSize, 0, idx, << >>, << >>)
        spliced == SpliceIn(hm, i0, scan.itemsToInsert)
        shifted == InsertShift(spliced, scan.idx, scan.i, scan.sizeDiff)
    IN  [hm |-> shifted.hm, idx |-> shifted.idx,
         ret |-> scan.sizeDiff, consumed |-> Len(items),
         aborted |-> FALSE,
         events |-> scan.events
                    \o InsertHooks(scan.itemsToInsert, i0, shifted.idx)
                    \o InsertRefreshHooks(shifted.hm, scan.i, shifted.idx)]

\* Mutant: an unknown afterItemId is taken for "insert at the start".
onInsertItems_NoCheck(hm, idx, items, afterItemId) ==
    IF afterItemId = Null \/ ~HasSlot(hm, Lookup(idx, afterItemId))
    THEN InsertAt(hm, idx, items, 0, 0)
    ELSE InsertAt(hm, idx, items, idx[afterItemId] + 1,
                  hm[idx[afterItemId] + 1].top + hm[idx[afterItemId] + 1].height)

onInsertItems(hm, idx, items, afterItemId) ==
    LET i0 == IF afterItemId = Null THEN 0 ELSE Lookup(idx, afterItemId) + 1
        missing == afterItemId # Null /\ ~HasSlot(hm, i0 - 1)
    IN  IF missing
        THEN [hm |-> hm, idx |-> idx, ret |-> Undefined, consumed |-> 0,
              aborted |-> TRUE, events |-> << >>]
        ELSE InsertAt(hm, idx, items, i0,
                      IF afterItemId = Null THEN 0 ELSE hm[i0].top + hm[i0].height)

----------------------------------------------------------------------------
\* onRemoveItems

\* while (itemId = iterator.next()) { ... }
RECURSIVE RemoveScan(_, _, _, _, _, _, _, _)
RemoveScan(hm, ids, k, idx, sizeDiff, startIndex, i, events) ==
    IF k > Len(ids)
    THEN [aborted |-> FALSE, idx |-> idx, sizeDiff |-> sizeDiff,
          startIndex |-> startIndex, i |-> i, events |-> events,
          consumed |-> Len(ids)]
    ELSE LET s == Lookup(idx, ids[k])
         IN  IF ~HasSlot(hm, s)
             THEN [aborted |-> TRUE, idx |-> idx, sizeDiff |-> sizeDiff,
                   startIndex |-> startIndex, i |-> s, events |-> events,
                   consumed |-> k]
             ELSE LET viewItem == hm[s + 1]
                      idx2 == Delete(idx, ids[k])
                  IN  RemoveScan(hm, ids, k + 1, idx2,
                                 sizeDiff - viewItem.height,
                                 IF startIndex = NoSlot THEN s ELSE startIndex,
                                 s,
                                 Append(events, Event("remove", viewItem, s, idx2, FALSE)))

\* Mutant: the loop starts one slot late (i = startIndex + 1).
RECURSIVE RemoveShift_Late(_, _, _, _, _)
RemoveShift_Late(hm, idx, i, sizeDiff, events) ==
    IF i + 1 >= Len(hm)
    THEN [hm |-> hm, idx |-> idx, events |-> events]
    ELSE LET viewItem == [hm[i + 2] EXCEPT !.top = @ + sizeDiff]
             idx2 == Put(idx, viewItem.id, i + 1)
         IN  RemoveShift_Late([hm EXCEPT ![i + 2] = viewItem], idx2, i + 1, sizeDiff,
                              Append(events, Event("refresh", viewItem, i + 1, idx2, FALSE)))

\* for (i = startIndex; i < this.heightMap.length; i++) { top += sizeDiff; ... }
RECURSIVE RemoveShift(_, _, _, _, _)
RemoveShift(hm, idx, i, sizeDiff, events) ==
    IF i >= Len(hm)
    THEN [hm |-> hm, idx |-> idx, events |-> events]
    ELSE LET viewItem == [hm[i + 1] EXCEPT !.top = @ + sizeDiff]
             idx2 == Put(idx, viewItem.id, i)
         IN  RemoveShift([hm EXCEPT ![i + 1] = viewItem], idx2, i + 1, sizeDiff,
                         Append(events, Event("refresh", viewItem, i, idx2, FALSE)))

\* Mutant: a missing id ends the loop (break) instead of the call (return).
onRemoveItems_Break(hm, idx, ids) ==
    LET scan == RemoveScan(hm, ids, 1, idx, 0, NoSlot, Undefined, << >>)
    IN  IF scan.sizeDiff = 0
        THEN [hm |-> hm, idx |-> scan.idx, ret |-> Undefined,
              consumed |-> scan.consumed, aborted |-> scan.aborted,
              events |-> scan.events]
        ELSE LET spliced == SpliceOut(hm, scan.startIndex, scan.i - scan.startIndex + 1)
                 shifted == RemoveShift(spliced, scan.idx, scan.startIndex,
                                        scan.sizeDiff, scan.events)
             IN  [hm |-> shifted.hm, idx |-> shifted.idx, ret |-> Undefined,
                  consumed |-> scan.consumed, aborted |-> scan.aborted,
                  events |-> shifted.events]

onRemoveItems(hm, idx, ids) ==
    LET scan == RemoveScan(hm, ids, 1, idx, 0, NoSlot, Undefined, << >>)
    IN  IF scan.aborted \/ scan.sizeDiff = 0
        THEN [hm |-> hm, idx |-> scan.idx, ret |-> Undefined,
              consumed |-> scan.consumed, aborted |-> scan.aborted,
              events |-> scan.events]
        ELSE LET spliced == SpliceOut(hm, scan.startIndex, scan.i - scan.startIndex + 1)
                 shifted == RemoveShift(spliced, scan.idx, scan.startIndex,
                                        scan.sizeDiff, scan.events)
             IN  [hm |-> shifted.hm, idx |-> shifted.idx, ret |-> Undefined,
                  consumed |-> scan.consumed, aborted |-> FALSE,
                  events |-> shifted.events]

----------------------------------------------------------------------------
\* onRefreshItems, onRefreshItemSet

\* Mutant: the rows behind a resized row are not moved.
RefreshShift_None(hm, idx, j, limit, cummDiff, events) ==
    [hm |-> hm, events |-> events]

\* Mutant: the loops also run when nothing is carried (cummDiff !== 0 missing).
RECURSIVE RefreshShift_Always(_, _, _, _, _, _)
RefreshShift_Always(hm, idx, j, limit, cummDiff, events) ==
    IF j # NoSlot /\ j < limit
    THEN LET viewItem == [hm[j + 1] EXCEPT !.top = @ + cummDiff]
         IN  RefreshShift_Always([hm EXCEPT ![j + 1] = viewItem], idx, j + 1, limit,
                                 cummDiff,
                                 Append(events, Event("refresh", viewItem, j, idx, FALSE)))
    ELSE [hm |-> hm, events |-> events]

\* for (; cummDiff !== 0 && j !== null && j < limit; j++) { top += cummDiff; ... }
RECURSIVE RefreshShift(_, _, _, _, _, _)
RefreshShift(hm, idx, j, limit, cummDiff, events) ==
    IF cummDiff # 0 /\ j # NoSlot /\ j < limit
    THEN LET viewItem == [hm[j + 1] EXCEPT !.top = @ + cummDiff]
         IN  RefreshShift([hm EXCEPT ![j + 1] = viewItem], idx, j + 1, limit, cummDiff,
                          Append(events, Event("refresh", viewItem, j, idx, FALSE)))
    ELSE [hm |-> hm, events |-> events]

\* Mutant: the refreshed row itself is not moved by the carried difference
\* (line 160 missing).
RECURSIVE RefreshScan_OwnTop(_, _, _, _, _, _, _)
RefreshScan_OwnTop(hm, idx, items, k, j, cummDiff, events) ==
    IF k > Len(items)
    THEN [hm |-> hm, j |-> j, cummDiff |-> cummDiff, events |-> events,
          aborted |-> FALSE, consumed |-> Len(items)]
    ELSE LET i == Lookup(idx, items[k].id)
             \* for (; cummDiff !== 0 && j !== null && j < i; j++): runs before
             \* heightMap[i] is read, over the rows that exist (j < undefined
             \* is false; heightMap[j] past the end throws like heightMap[i])
             caught == RefreshShift(hm, idx, j, IF i < Len(hm) THEN i ELSE Len(hm),
                                    cummDiff, events)
         IN  IF ~HasSlot(hm, i)
             \* heightMap[i] is undefined: reading its top throws a TypeError
             THEN [hm |-> caught.hm, j |-> j, cummDiff |-> cummDiff,
                   events |-> caught.events, aborted |-> TRUE, consumed |-> k]
             ELSE LET newHeight == items[k].height
                      old == caught.hm[i + 1]
                      viewItem == [old EXCEPT !.height = newHeight]
                  IN  RefreshScan_OwnTop([caught.hm EXCEPT ![i + 1] = viewItem], idx, items,
                                         k + 1, i + 1,
                                         cummDiff + (newHeight - old.height),
                                         Append(caught.events, Event("refresh", viewItem, i, idx, TRUE)))

\* while (item = iterator.next()) { ... }
RECURSIVE RefreshScan(_, _, _, _, _, _, _)
RefreshScan(hm, idx, items, k, j, cummDiff, events) ==
    IF k > Len(items)
    THEN [hm |-> hm, j |-> j, cummDiff |-> cummDiff, events |-> events,
          aborted |-> FALSE, consumed |-> Len(items)]
    ELSE LET i == Lookup(idx, items[k].id)
             \* for (; cummDiff !== 0 && j !== null && j < i; j++): runs before
             \* heightMap[i] is read, over the rows that exist (j < undefined
             \* is false; heightMap[j] past the end throws like heightMap[i])
             caught == RefreshShift(hm, idx, j, IF i < Len(hm) THEN i ELSE Len(hm),
                                    cummDiff, events)
         IN  IF ~HasSlot(hm, i)
             \* heightMap[i] is undefined: reading its top throws a TypeError
             THEN [hm |-> caught.hm, j |-> j, cummDiff |-> cummDiff,
                   events |-> caught.events, aborted |-> TRUE, consumed |-> k]
             ELSE LET newHeight == items[k].height
                      old == caught.hm[i + 1]
                      viewItem == [old EXCEPT !.top = @ + cummDiff, !.height = newHeight]
                  IN  RefreshScan([caught.hm EXCEPT ![i + 1] = viewItem], idx, items,
                                  k + 1, i + 1,
                                  cummDiff + (newHeight - old.height),
                                  Append(caught.events, Event("refresh", viewItem, i, idx, TRUE)))

onRefreshItems(hm, idx, items) ==
    LET scan == RefreshScan(hm, idx, items, 1, NoSlot, 0, << >>)
        rest == IF scan.aborted THEN [hm |-> scan.hm, events |-> scan.events]
                ELSE RefreshShift(scan.hm, idx, scan.j, Len(scan.hm), scan.cummDiff, scan.events)
    IN  [hm |-> rest.hm, idx |-> idx, ret |-> Undefined, consumed |-> scan.consumed,
         aborted |-> scan.aborted, events |-> rest.events]

\* Mutant: the items are handed on in the order given.
SortBySlot_Unsorted(idx, items) == items

\* (a, b) => this.indexes[a.id] - this.indexes[b.id]: with an id that is no
\* key the difference is NaN, which the sort takes as 0.
Compare(idx, a, b) ==
    IF a.id \in DOMAIN idx /\ b.id \in DOMAIN idx THEN idx[a.id] - idx[b.id] ELSE 0

\* ---- items.sort(...): Array.prototype.sort of the engine.  Positions in
\* an array are counted from 0.

At(a, i) == a[i + 1]

SetAt(a, i, v) == [a EXCEPT ![i + 1] = v]

\* target with `length` elements of source, read from srcPos, at dstPos on.
Copy(source, srcPos, target, dstPos, length) ==
    SubSeq(target, 1, dstPos) \o SubSeq(source, srcPos + 1, srcPos + length)
        \o SubSeq(target, dstPos + length + 1, Len(target))

\* a with the elements from .. to - 1 in reverse order.
ReverseRange(a, from, to) ==
    SubSeq(a, 1, from) \o [k \in 1..(to - from) |-> a[to + 1 - k]]
        \o SubSeq(a, to + 1, Len(a))

Max(a, b) == IF a > b THEN a ELSE b

Min(a, b) == IF a < b THEN a ELSE b

\* A merge leaves the one-pair-at-a-time mode when one run has won this often.
MinGallopWins == 7

\* The least length of a run: the length itself below 64.
RECURSIVE ComputeMinRunLength(_, _)
ComputeMinRunLength(n, r) ==
    IF n >= 64 THEN ComputeMinRunLength(n \div 2, IF n % 2 = 1 THEN 1 ELSE r)
    ELSE n + r

\* The end of the run that starts at low: the first position from low + 2 on
\* whose element breaks the order against the element before it.
CountRun(idx, a, isDescending, low, high) ==
    LET breaks == {i \in (low + 2)..(high - 1) :
                      LET order == Compare(idx, At(a, i), At(a, i - 1))
                      IN  (isDescending /\ order >= 0) \/ (~isDescending /\ order < 0)}
    IN  IF breaks = {} THEN high
        ELSE CHOOSE i \in breaks : \A j \in breaks : i <= j

\* The run that starts at low, reversed when it is strictly descending.
CountAndMakeRun(idx, a, low, high) ==
    IF low + 1 = high THEN [a |-> a, runLength |-> 1]
    ELSE LET isDescending == Compare(idx, At(a, low + 1), At(a, low)) < 0
             runLength == CountRun(idx, a, isDescending, low, high) - low
         IN  [a |-> IF isDescending THEN ReverseRange(a, low, low + runLength) ELSE a,
              runLength |-> runLength]

\* The place of pivot among the sorted elements left .. right - 1.
RECURSIVE BinarySlot(_, _, _, _, _)
BinarySlot(idx, a, pivot, left, right) ==
    IF left < right
    THEN LET mid == left + ((right - left) \div 2)
         IN  IF Compare(idx, pivot, At(a, mid)) < 0
             THEN BinarySlot(idx, a, pivot, left, mid)
             ELSE BinarySlot(idx, a, pivot, mid + 1, right)
    ELSE left

\* Inserts the element at start among the sorted elements low .. start - 1.
BinaryInsert(idx, a, low, start) ==
    LET pivot == At(a, start)
        left == BinarySlot(idx, a, pivot, low, start)
    IN  SetAt(Copy(a, left, a, left + 1, start - left), left, pivot)

\* Sorts low .. high - 1, of which low .. start - 1 is sorted already: the
\* elements from start on are inserted one after the other.
RECURSIVE BinaryInsertionSort(_, _, _, _, _)
BinaryInsertionSort(idx, a, low, start, high) ==
    IF start >= high \/ start >= Len(a) THEN a
    ELSE IF start + 1 = high THEN BinaryInsert(idx, a, low, start)
    ELSE LET half == start + ((high - start) \div 2)
         IN  BinaryInsertionSort(idx, BinaryInsertionSort(idx, a, low, start, half),
                                 low, half, high)

\* One comparison of a gallop: the key against the element at pos.
Probe(idx, arr, key, pos, keyFirst) ==
    IF keyFirst THEN Compare(idx, key, At(arr, pos)) ELSE Compare(idx, At(arr, pos), key)

\* The exponential search of a gallop, away from `from` in direction dir.
RECURSIVE GallopScan(_, _, _, _, _, _, _, _, _, _)
GallopScan(idx, arr, key, from, dir, keyFirst, breakIfLess, lastOfs, offset, maxOfs) ==
    IF offset < maxOfs
    THEN LET order == Probe(idx, arr, key, from + dir * offset, keyFirst)
         IN  IF (order < 0) = breakIfLess
             THEN [lastOfs |-> lastOfs, offset |-> offset]
             ELSE GallopScan(idx, arr, key, from, dir, keyFirst, breakIfLess,
                             offset, 2 * offset + 1, maxOfs)
    ELSE [lastOfs |-> lastOfs, offset |-> IF offset > maxOfs THEN maxOfs ELSE offset]

\* The binary search that ends a gallop.
RECURSIVE GallopBisect(_, _, _, _, _, _, _)
GallopBisect(idx, arr, key, base, keyFirst, lastOfs, offset) ==
    IF lastOfs < offset
    THEN LET m == lastOfs + ((offset - lastOfs) \div 2)
             less == Probe(idx, arr, key, base + m, keyFirst) < 0
         IN  IF less = keyFirst
             THEN GallopBisect(idx, arr, key, base, keyFirst, lastOfs, m)
             ELSE GallopBisect(idx, arr, key, base, keyFirst, m + 1, offset)
    ELSE offset

\* The offsets of a scan to the right of the hint, counted from base.
ScanRight(scan, hint) == [lastOfs |-> scan.lastOfs + hint, offset |-> scan.offset + hint]

\* The offsets of a scan to the left of the hint, counted from base.
ScanLeft(scan, hint) == [lastOfs |-> hint - scan.offset, offset |-> hint - scan.lastOfs]

\* The binary search of a gallop, between the offsets the scan has found.
GallopEnd(idx, arr, key, base, keyFirst, scan) ==
    GallopBisect(idx, arr, key, base, keyFirst, scan.lastOfs + 1, scan.offset)

\* The number of elements of arr[base .. base + length - 1] that go before
\* key, key going before the elements equal to it.
GallopLeft(idx, arr, key, base, length, hint) ==
    GallopEnd(idx, arr, key, base, FALSE,
        IF Probe(idx, arr, key, base + hint, FALSE) < 0
        THEN ScanRight(GallopScan(idx, arr, key, base + hint, 1, FALSE, FALSE,
                                  0, 1, length - hint), hint)
        ELSE ScanLeft(GallopScan(idx, arr, key, base + hint, 0 - 1, FALSE, TRUE,
                                 0, 1, hint + 1), hint))

\* The same, key going behind the elements equal to it.
GallopRight(idx, arr, key, base, length, hint) ==
    GallopEnd(idx, arr, key, base, TRUE,
        IF Probe(idx, arr, key, base + hint, TRUE) < 0
        THEN ScanLeft(GallopScan(idx, arr, key, base + hint, 0 - 1, TRUE, FALSE,
                                 0, 1, hint + 1), hint)
        ELSE ScanRight(GallopScan(idx, arr, key, base + hint, 1, TRUE, TRUE,
                                  0, 1, length - hint), hint))

\* ---- A merge.  m holds its local variables: the array a, the copy temp of
\* the shorter run, the cursors, what is left of the runs, the wins,
\* minGallop (local) and saved (kept by the sort between merges); out is the
\* loop the merge is in ("pairs": one pair at a time, "gallop") or the label
\* it has left to.

\* n is the merge after a run has won a pair: `wins` times in a row, `left`
\* elements of it are left, and at `least` the merge leaves to `label`.
AfterPair(n, wins, left, least, label) ==
    IF left = least THEN [n EXCEPT !.out = label]
    ELSE IF wins >= n.minGallop
         THEN [n EXCEPT !.out = "gallop", !.minGallop = @ + 1, !.firstIteration = TRUE]
         ELSE n

\* The galloping loop goes on: minGallop goes down, to 1 at least.
GallopRound(m) ==
    [m EXCEPT !.firstIteration = FALSE, !.minGallop = Max(1, @ - 1),
              !.saved = Max(1, m.minGallop - 1)]

\* The galloping loop is left, with a penalty, for the one-pair-at-a-time loop.
GallopLeave(m) ==
    [m EXCEPT !.out = "pairs", !.minGallop = @ + 1, !.saved = m.minGallop + 1,
              !.nofWinsA = 0, !.nofWinsB = 0]

GallopGoesOn(m) ==
    m.nofWinsA >= MinGallopWins \/ m.nofWinsB >= MinGallopWins \/ m.firstIteration

\* MergeLow, one pair: the head of run B against the head of the copy of A.
MergeLowPair(idx, m) ==
    IF Compare(idx, At(m.a, m.cursorB), At(m.temp, m.cursorTemp)) < 0
    THEN AfterPair([m EXCEPT !.a = SetAt(@, m.dest, At(m.a, m.cursorB)),
                             !.dest = @ + 1, !.cursorB = @ + 1,
                             !.nofWinsB = @ + 1, !.lengthB = @ - 1, !.nofWinsA = 0],
                   m.nofWinsB + 1, m.lengthB - 1, 0, "Succeed")
    ELSE AfterPair([m EXCEPT !.a = SetAt(@, m.dest, At(m.temp, m.cursorTemp)),
                             !.dest = @ + 1, !.cursorTemp = @ + 1,
                             !.nofWinsA = @ + 1, !.lengthA = @ - 1, !.nofWinsB = 0],
                   m.nofWinsA + 1, m.lengthA - 1, 1, "CopyB")

\* MergeLow, galloping: nofWinsA elements of the copy of A go before the head of B.
MergeLowTookA(m, nofWinsA) ==
    IF nofWinsA = 0 THEN [m EXCEPT !.nofWinsA = 0]
    ELSE LET n == [m EXCEPT !.a = Copy(m.temp, m.cursorTemp, m.a, m.dest, nofWinsA),
                            !.dest = @ + nofWinsA, !.cursorTemp = @ + nofWinsA,
                            !.lengthA = @ - nofWinsA, !.nofWinsA = nofWinsA]
         IN  IF n.lengthA = 1 THEN [n EXCEPT !.out = "CopyB"]
             ELSE IF n.lengthA = 0 THEN [n EXCEPT !.out = "Succeed"]
             ELSE n

MergeLowGallopA(idx, m) ==
    IF m.out # "gallop" THEN m
    ELSE MergeLowTookA(m, GallopRight(idx, m.temp, At(m.a, m.cursorB), m.cursorTemp,
                                      m.lengthA, 0))

\* MergeLow, galloping: the head of B follows.
MergeLowMoveB(m) ==
    IF m.out # "gallop" THEN m
    ELSE [m EXCEPT !.a = SetAt(@, m.dest, At(m.a, m.cursorB)),
                   !.dest = @ + 1, !.cursorB = @ + 1, !.lengthB = @ - 1,
                   !.out = IF m.lengthB = 1 THEN "Succeed" ELSE @]

\* MergeLow, galloping: nofWinsB elements of B go before the head of the copy of A.
MergeLowTookB(m, nofWinsB) ==
    IF nofWinsB = 0 THEN [m EXCEPT !.nofWinsB = 0]
    ELSE [m EXCEPT !.a = Copy(m.a, m.cursorB, m.a, m.dest, nofWinsB),
                   !.dest = @ + nofWinsB, !.cursorB = @ + nofWinsB,
                   !.lengthB = @ - nofWinsB, !.nofWinsB = nofWinsB,
                   !.out = IF m.lengthB = nofWinsB THEN "Succeed" ELSE @]

MergeLowGallopB(idx, m) ==
    IF m.out # "gallop" THEN m
    ELSE MergeLowTookB(m, GallopLeft(idx, m.a, At(m.temp, m.cursorTemp), m.cursorB,
                                     m.lengthB, 0))

\* MergeLow, galloping: the head of the copy of A follows.
MergeLowMoveA(m) ==
    IF m.out # "gallop" THEN m
    ELSE [m EXCEPT !.a = SetAt(@, m.dest, At(m.temp, m.cursorTemp)),
                   !.dest = @ + 1, !.cursorTemp = @ + 1, !.lengthA = @ - 1,
                   !.out = IF m.lengthA = 2 THEN "CopyB" ELSE @]

\* One round of a loop of MergeLow.
MergeLowStep(idx, m) ==
    IF m.out = "pairs" THEN MergeLowPair(idx, m)
    ELSE IF ~GallopGoesOn(m) THEN GallopLeave(m)
    ELSE MergeLowMoveA(MergeLowGallopB(idx,
             MergeLowMoveB(MergeLowGallopA(idx, GallopRound(m)))))

\* Up to `rounds` rounds of the loops of MergeLow, until a label is reached.
RECURSIVE MergeLowLoop(_, _, _)
MergeLowLoop(idx, m, rounds) ==
    IF m.out \in {"Succeed", "CopyB"} \/ rounds = 0 THEN m
    ELSE IF rounds = 1 THEN MergeLowStep(idx, m)
    ELSE MergeLowLoop(idx, MergeLowLoop(idx, m, rounds \div 2), rounds - (rounds \div 2))

\* MergeLow before its loops: run A is copied, the head of B is moved.
MergeLowStart(a, minGallop, baseA, lengthA, baseB, lengthB) ==
    [a |-> SetAt(a, baseA, At(a, baseB)),
     temp |-> SubSeq(a, baseA + 1, baseA + lengthA),
     dest |-> baseA + 1, cursorTemp |-> 0, cursorB |-> baseB + 1,
     lengthA |-> lengthA, lengthB |-> lengthB - 1,
     nofWinsA |-> 0, nofWinsB |-> 0, firstIteration |-> FALSE,
     minGallop |-> minGallop, saved |-> minGallop,
     out |-> IF lengthB = 1 THEN "Succeed" ELSE IF lengthA = 1 THEN "CopyB" ELSE "pairs"]

\* MergeLow behind its labels: what is left of a run is copied.
MergeLowEnd(m) ==
    [a |-> IF m.out = "Succeed"
           THEN IF m.lengthA > 0
                THEN Copy(m.temp, m.cursorTemp, m.a, m.dest, m.lengthA)
                ELSE m.a
           \* CopyB: the last element of run A belongs at the end
           ELSE SetAt(Copy(m.a, m.cursorB, m.a, m.dest, m.lengthB),
                      m.dest + m.lengthB, At(m.temp, m.cursorTemp)),
     minGallop |-> m.saved]

\* Merges run A (the shorter) with run B behind it, from the front.  Every
\* two rounds move an element at least.
MergeLow(idx, a, minGallop, baseA, lengthA, baseB, lengthB) ==
    MergeLowEnd(MergeLowLoop(idx,
        MergeLowStart(a, minGallop, baseA, lengthA, baseB, lengthB),
        2 * (lengthA + lengthB) + 2))

\* MergeHigh, one pair: the tail of the copy of B against the tail of run A.
MergeHighPair(idx, m) ==
    IF Compare(idx, At(m.temp, m.cursorTemp), At(m.a, m.cursorA)) < 0
    THEN AfterPair([m EXCEPT !.a = SetAt(@, m.dest, At(m.a, m.cursorA)),
                             !.dest = @ - 1, !.cursorA = @ - 1,
                             !.nofWinsA = @ + 1, !.lengthA = @ - 1, !.nofWinsB = 0],
                   m.nofWinsA + 1, m.lengthA - 1, 0, "Succeed")
    ELSE AfterPair([m EXCEPT !.a = SetAt(@, m.dest, At(m.temp, m.cursorTemp)),
                             !.dest = @ - 1, !.cursorTemp = @ - 1,
                             !.nofWinsB = @ + 1, !.lengthB = @ - 1, !.nofWinsA = 0],
                   m.nofWinsB + 1, m.lengthB - 1, 1, "CopyA")

\* MergeHigh, galloping: nofWinsA elements of A go behind the tail of the copy of B.
MergeHighTookA(m, nofWinsA) ==
    IF nofWinsA = 0 THEN [m EXCEPT !.nofWinsA = 0]
    ELSE [m EXCEPT !.a = Copy(m.a, m.cursorA - nofWinsA + 1, m.a,
                              m.dest - nofWinsA + 1, nofWinsA),
                   !.dest = @ - nofWinsA, !.cursorA = @ - nofWinsA,
                   !.lengthA = @ - nofWinsA, !.nofWinsA = nofWinsA,
                   !.out = IF m.lengthA = nofWinsA THEN "Succeed" ELSE @]

MergeHighGallopA(idx, m) ==
    IF m.out # "gallop" THEN m
    ELSE MergeHighTookA(m, m.lengthA - GallopRight(idx, m.a, At(m.temp, m.cursorTemp),
                                                   m.baseA, m.lengthA, m.lengthA - 1))

\* MergeHigh, galloping: the tail of the copy of B follows.
MergeHighMoveB(m) ==
    IF m.out # "gallop" THEN m
    ELSE [m EXCEPT !.a = SetAt(@, m.dest, At(m.temp, m.cursorTemp)),
                   !.dest = @ - 1, !.cursorTemp = @ - 1, !.lengthB = @ - 1,
                   !.out = IF m.lengthB = 2 THEN "CopyA" ELSE @]

\* MergeHigh, galloping: nofWinsB elements of the copy of B go behind the tail of A.
MergeHighTookB(m, nofWinsB) ==
    IF nofWinsB = 0 THEN [m EXCEPT !.nofWinsB = 0]
    ELSE LET n == [m EXCEPT !.a = Copy(m.temp, m.cursorTemp - nofWinsB + 1, m.a,
                                       m.dest - nofWinsB + 1, nofWinsB),
                            !.dest = @ - nofWinsB, !.cursorTemp = @ - nofWinsB,
                            !.lengthB = @ - nofWinsB, !.nofWinsB = nofWinsB]
         IN  IF n.lengthB = 1 THEN [n EXCEPT !.out = "CopyA"]
             ELSE IF n.lengthB = 0 THEN [n EXCEPT !.out = "Succeed"]
             ELSE n

MergeHighGallopB(idx, m) ==
    IF m.out # "gallop" THEN m
    ELSE MergeHighTookB(m, m.lengthB - GallopLeft(idx, m.temp, At(m.a, m.cursorA), 0,
                                                  m.lengthB, m.lengthB - 1))

\* MergeHigh, galloping: the tail of A follows.
MergeHighMoveA(m) ==
    IF m.out # "gallop" THEN m
    ELSE [m EXCEPT !.a = SetAt(@, m.dest, At(m.a, m.cursorA)),
                   !.dest = @ - 1, !.cursorA = @ - 1, !.lengthA = @ - 1,
                   !.out = IF m.lengthA = 1 THEN "Succeed" ELSE @]

\* One round of a loop of MergeHigh.
MergeHighStep(idx, m) ==
    IF m.out = "pairs" THEN MergeHighPair(idx, m)
    ELSE IF ~GallopGoesOn(m) THEN GallopLeave(m)
    ELSE MergeHighMoveA(MergeHighGallopB(idx,
             MergeHighMoveB(MergeHighGallopA(idx, GallopRound(m)))))

\* Up to `rounds` rounds of the loops of MergeHigh, until a label is reached.
RECURSIVE MergeHighLoop(_, _, _)
MergeHighLoop(idx, m, rounds) ==
    IF m.out \in {"Succeed", "CopyA"} \/ rounds = 0 THEN m
    ELSE IF rounds = 1 THEN MergeHighStep(idx, m)
    ELSE MergeHighLoop(idx, MergeHighLoop(idx, m, rounds \div 2), rounds - (rounds \div 2))

\* MergeHigh before its loops: run B is copied, the tail of A is moved.
MergeHighStart(a, minGallop, baseA, lengthA, baseB, lengthB) ==
    [a |-> SetAt(a, baseB + lengthB - 1, At(a, baseA + lengthA - 1)),
     temp |-> SubSeq(a, baseB + 1, baseB + lengthB),
     dest |-> baseB + lengthB - 2, cursorTemp |-> lengthB - 1,
     cursorA |-> baseA + lengthA - 2, baseA |-> baseA,
     lengthA |-> lengthA - 1, lengthB |-> lengthB,
     nofWinsA |-> 0, nofWinsB |-> 0, firstIteration |-> FALSE,
     minGallop |-> minGallop, saved |-> minGallop,
     out |-> IF lengthA = 1 THEN "Succeed" ELSE IF lengthB = 1 THEN "CopyA" ELSE "pairs"]

\* MergeHigh behind its labels: what is left of a run is copied.
MergeHighEnd(m) ==
    [a |-> IF m.out = "Succeed"
           THEN IF m.lengthB > 0
                THEN Copy(m.temp, 0, m.a, m.dest - (m.lengthB - 1), m.lengthB)
                ELSE m.a
           \* CopyA: the first element of run B belongs at the front
           ELSE SetAt(Copy(m.a, m.cursorA - m.lengthA + 1, m.a,
                           m.dest - m.lengthA + 1, m.lengthA),
                      m.dest - m.lengthA, At(m.temp, m.cursorTemp)),
     minGallop |-> m.saved]

\* Merges run A with run B (the shorter) behind it, from the back.
MergeHigh(idx, a, minGallop, baseA, lengthA, baseB, lengthB) ==
    MergeHighEnd(MergeHighLoop(idx,
        MergeHighStart(a, minGallop, baseA, lengthA, baseB, lengthB),
        2 * (lengthA + lengthB) + 2))

\* ---- The pending runs.  st is the state of the sort: the array a, the
\* pending runs and minGallop.

\* The pending runs i and i + 1 have become one.
RunsMerged(st, i) ==
    [st EXCEPT !.runs = [k \in 1..(Len(st.runs) - 1) |->
                            IF k = i + 1
                            THEN [base |-> st.runs[i + 1].base,
                                  length |-> st.runs[i + 1].length + st.runs[i + 2].length]
                            ELSE IF k <= i THEN st.runs[k] ELSE st.runs[k + 1]]]

\* The array and minGallop as a merge has left them.
Merged(st, merged) == [st EXCEPT !.a = merged.a, !.minGallop = merged.minGallop]

\* MergeAt, the elements of run B that are already in place left out:
\* lengthB elements of B are merged with the lengthA elements of A from baseA.
MergeTrimmed(idx, st, i, baseA, lengthA, lengthB) ==
    IF lengthB = 0 THEN RunsMerged(st, i)
    ELSE Merged(RunsMerged(st, i),
                IF lengthA <= lengthB
                THEN MergeLow(idx, st.a, st.minGallop, baseA, lengthA,
                              st.runs[i + 2].base, lengthB)
                ELSE MergeHigh(idx, st.a, st.minGallop, baseA, lengthA,
                               st.runs[i + 2].base, lengthB))

\* MergeAt, the first k elements of run A being in place already.
MergeBehind(idx, st, i, k) ==
    IF k = st.runs[i + 1].length THEN RunsMerged(st, i)
    ELSE MergeTrimmed(idx, st, i, st.runs[i + 1].base + k, st.runs[i + 1].length - k,
             GallopLeft(idx, st.a,
                        At(st.a, st.runs[i + 1].base + st.runs[i + 1].length - 1),
                        st.runs[i + 2].base, st.runs[i + 2].length,
                        st.runs[i + 2].length - 1))

\* Merges the pending runs i and i + 1.
MergeAt(idx, st, i) ==
    MergeBehind(idx, st, i,
        GallopRight(idx, st.a, At(st.a, st.runs[i + 2].base), st.runs[i + 1].base,
                    st.runs[i + 1].length, 0))

\* The pending runs n - 2, n - 1, n grow fast enough.
RunInvariantEstablished(runs, n) ==
    IF n < 2 THEN TRUE
    ELSE runs[n - 1].length > runs[n].length + runs[n + 1].length

\* The run to merge next while the pending runs are collapsed, NoSlot for none.
CollapseAt(runs) ==
    LET n == Len(runs) - 2
    IN  IF \/ ~RunInvariantEstablished(runs, n + 1)
           \/ ~RunInvariantEstablished(runs, n)
        THEN IF runs[n].length < runs[n + 2].length THEN n - 1 ELSE n
        ELSE IF runs[n + 1].length <= runs[n + 2].length THEN n ELSE NoSlot

RECURSIVE MergeCollapse(_, _)
MergeCollapse(idx, st) ==
    IF Len(st.runs) <= 1 \/ CollapseAt(st.runs) = NoSlot THEN st
    ELSE MergeCollapse(idx, MergeAt(idx, st, CollapseAt(st.runs)))

RECURSIVE MergeForceCollapse(_, _)
MergeForceCollapse(idx, st) ==
    IF Len(st.runs) <= 1 THEN st
    ELSE MergeForceCollapse(idx,
             MergeAt(idx, st,
                     IF /\ Len(st.runs) > 2
                        /\ st.runs[Len(st.runs) - 2].length < st.runs[Len(st.runs)].length
                     THEN Len(st.runs) - 3 ELSE Len(st.runs) - 2))

\* while (remaining != 0) { next run; push; collapse }: a run shorter than
\* minRunLength is made that long by binary insertion.
RECURSIVE SortRuns(_, _, _, _, _)
SortRuns(idx, st, low, remaining, minRunLength) ==
    IF remaining = 0 THEN st
    ELSE LET run == CountAndMakeRun(idx, st.a, low, low + remaining)
             forced == IF run.runLength < minRunLength
                       THEN Min(minRunLength, remaining) ELSE run.runLength
             a == IF run.runLength < minRunLength
                  THEN BinaryInsertionSort(idx, run.a, low, low + run.runLength, low + forced)
                  ELSE run.a
         IN  SortRuns(idx,
                      MergeCollapse(idx,
                          [st EXCEPT !.a = a,
                                     !.runs = Append(@, [base |-> low, length |-> forced])]),
                      low + forced, remaining - forced, minRunLength)

\* items.sort((a, b) => this.indexes[a.id] - this.indexes[b.id])
SortBySlot(idx, items) ==
    IF Len(items) < 2 THEN items
    ELSE MergeForceCollapse(idx,
             SortRuns(idx, [a |-> items, runs |-> << >>, minGallop |-> MinGallopWins],
                      0, Len(items), ComputeMinRunLength(Len(items), 0))).a

onRefreshItemSet(hm, idx, items) == onRefreshItems(hm, idx, SortBySlot(idx, items))

----------------------------------------------------------------------------
\* Mutant: the window of a row is closed at its end (> for >=).
RECURSIVE Search_Closed(_, _, _, _)
Search_Closed(hm, position, left, right) ==
    IF left < right
    THEN LET center == (left + right) \div 2
             item == hm[center + 1]
         IN  IF position < item.top
             THEN Search_Closed(hm, position, left, center)
             ELSE IF position > item.top + item.height
                  THEN IF left = center THEN Len(hm)
                       ELSE Search_Closed(hm, position, center, right)
                  ELSE center
    ELSE Len(hm)

\* indexAt: the binary search loop, one call per iteration.
RECURSIVE Search(_, _, _, _)
Search(hm, position, left, right) ==
    IF left < right
    THEN LET center == (left + right) \div 2
             item == hm[center + 1]
         IN  IF position < item.top
             THEN Search(hm, position, left, center)
             ELSE IF position >= item.top + item.height
                  THEN IF left = center THEN Len(hm)
                       ELSE Search(hm, position, center, right)
                  ELSE center
    ELSE Len(hm)

indexAt(hm, position) == Search(hm, position, 0, Len(hm))

----------------------------------------------------------------------------
\* withItemsInRange

\* for (let i = start; i <= end; i++) fn(this.heightMap[i].model.id)
\* Reading .model of a missing slot throws a TypeError, which ends the call.
RECURSIVE RangeLoop(_, _, _, _, _)
RangeLoop(hm, idx, i, end, events) ==
    IF i > end
    THEN [ret |-> Undefined, consumed |-> 0, aborted |-> FALSE, events |-> events]
    ELSE IF ~HasSlot(hm, i)
         THEN [ret |-> Undefined, consumed |-> 0, aborted |-> TRUE, events |-> events]
         ELSE RangeLoop(hm, idx, i + 1, end,
                        Append(events, Event("fn", hm[i + 1], i, idx, FALSE)))

withItemsInRange(hm, idx, start, end) ==
    RangeLoop(hm, idx, indexAt(hm, start), indexAt(hm, end), << >>)

----------------------------------------------------------------------------
\* Inputs and the state machine.

RECURSIVE SeqsUpTo(_, _)
SeqsUpTo(S, n) ==
    IF n = 0 THEN {<< >>}
    ELSE LET shorter == SeqsUpTo(S, n - 1)
         IN  shorter \cup {Append(s, x) : s \in {t \in shorter : Len(t) = n - 1}, x \in S}

Distinct(s) == \A a, b \in 1..Len(s) : a # b => s[a] # s[b]

IdsOf(items) == [k \in 1..Len(items) |-> items[k].id]

Present(idx, hm, id) == id \in DOMAIN idx /\ HasSlot(hm, idx[id])

\* The sequences of at most n items with pairwise distinct ids taken from avail.
RECURSIVE ItemSeqs(_, _)
ItemSeqs(avail, n) ==
    IF n = 0 THEN {<< >>}
    ELSE {<< >>} \cup
         UNION {{<<x>> \o t : t \in ItemSeqs(avail \ {x.id}, n - 1)} :
                x \in {it \in Items : it.id \in avail}}

\* The caller inserts items it does not consider shown: their ids are not
\* keys of indexes, and an iterator yields each item once.
InsertInputs ==
    ItemSeqs(Ids \ DOMAIN indexes, Min(MaxItems, MaxRows - Len(heightMap)))

\* "Contiguous items": present ids whose slots are consecutive and ascending.
IsRun(idx, hm, ids) ==
    \A k \in 1..Len(ids) :
        /\ Present(idx, hm, ids[k])
        /\ k > 1 => idx[ids[k]] = idx[ids[k - 1]] + 1

\* An id that is no key of indexes when the loop reaches it.
MeetsAbsent(idx, ids) ==
    \E k \in 1..Len(ids) :
        \/ ids[k] \notin DOMAIN idx
        \/ \E m \in 1..(k - 1) : ids[m] = ids[k]

RemoveInputs ==
    {ids \in SeqsUpTo(Ids, MaxItems) :
        IsRun(indexes, heightMap, ids) \/ MeetsAbsent(indexes, ids)}

\* "Ordered, but not necessarily contiguous items": present, ascending slots.
IsOrdered(idx, hm, items) ==
    \A k \in 1..Len(items) :
        /\ Present(idx, hm, items[k].id)
        /\ k > 1 => idx[items[k].id] > idx[items[k - 1].id]

PresentIds == {id \in Ids : Present(indexes, heightMap, id)}

\* onRefreshItemSet takes the items in any order.
RefreshSetInputs == ItemSeqs(PresentIds, MaxItems)

RefreshInputs == {items \in RefreshSetInputs : IsOrdered(indexes, heightMap, items)}

Positions == (0 - 1)..(getTotalHeight(heightMap) + 1)

Range(s) == {s[k] : k \in 1..Len(s)}

NoArgs == [items |-> << >>, set |-> {}, ids |-> << >>, afterItemId |-> Null,
           position |-> 0, end |-> 0]

Done(op, args, r) ==
    [op |-> op, args |-> args, ret |-> r.ret, consumed |-> r.consumed,
     aborted |-> r.aborted, events |-> r.events]

\* `last` is the observer's record of the call in progress: which operation,
\* its arguments, what it returned, how many elements its iterator yielded and
\* the hook calls it made.  It is empty between calls.
Idle == [op |-> "idle", args |-> NoArgs, ret |-> Undefined, consumed |-> 0,
         aborted |-> FALSE, events |-> << >>]

Init ==
    /\ heightMap = << >>
    /\ indexes = EmptyIndexes
    /\ last = Idle
    /\ disposed = FALSE

InsertItems ==
    /\ last.op = "idle"
    /\ ~disposed
    /\ UNCHANGED disposed
    /\ \E items \in InsertInputs, afterItemId \in Ids \cup {Null} :
        LET r == onInsertItems(heightMap, indexes, items, afterItemId)
        IN  /\ heightMap' = r.hm
            /\ indexes' = r.idx
            /\ last' = Done("insert",
                            [NoArgs EXCEPT !.items = items, !.afterItemId = afterItemId], r)

RemoveItems ==
    /\ last.op = "idle"
    /\ ~disposed
    /\ UNCHANGED disposed
    /\ \E ids \in RemoveInputs :
        LET r == onRemoveItems(heightMap, indexes, ids)
        IN  /\ heightMap' = r.hm
            /\ indexes' = r.idx
            /\ last' = Done("remove", [NoArgs EXCEPT !.ids = ids], r)

RefreshItems ==
    /\ last.op = "idle"
    /\ ~disposed
    /\ UNCHANGED disposed
    /\ \E items \in RefreshInputs :
        LET r == onRefreshItems(heightMap, indexes, items)
        IN  /\ heightMap' = r.hm
            /\ indexes' = r.idx
            /\ last' = Done("refresh", [NoArgs EXCEPT !.items = items], r)

RefreshItemSet ==
    /\ last.op = "idle"
    /\ ~disposed
    /\ UNCHANGED disposed
    /\ \E items \in RefreshSetInputs :
        LET r == onRefreshItemSet(heightMap, indexes, items)
        IN  /\ heightMap' = r.hm
            /\ indexes' = r.idx
            /\ last' = Done("refreshSet", [NoArgs EXCEPT !.set = Range(items)], r)

IndexAt ==
    /\ last.op = "idle"
    /\ ~disposed
    /\ UNCHANGED disposed
    /\ \E position \in Positions :
        /\ last' = [op |-> "indexAt", args |-> [NoArgs EXCEPT !.position = position],
                    ret |-> indexAt(heightMap, position), consumed |-> 0,
                    aborted |-> FALSE, events |-> << >>]
        /\ UNCHANGED <<heightMap, indexes>>

WithItemsInRange ==
    /\ last.op = "idle"
    /\ ~disposed
    /\ UNCHANGED disposed
    /\ \E start \in Positions, end \in Positions :
        /\ start <= end
        /\ last' = Done("withItemsInRange",
                        [NoArgs EXCEPT !.position = start, !.end = end],
                        withItemsInRange(heightMap, indexes, start, end))
        /\ UNCHANGED <<heightMap, indexes>>

\* The call returns to its caller; every operation runs to completion before
\* the next one begins.
Return ==
    /\ last.op # "idle"
    /\ last' = Idle
    /\ UNCHANGED <<heightMap, indexes, disposed>>

\* A call that ends in a TypeError after it took `consumed` elements.
Thrown(consumed) ==
    [ret |-> Undefined, consumed |-> consumed, aborted |-> TRUE, events |-> << >>]

\* A call that returns without having done anything.
Returned == [ret |-> Undefined, consumed |-> 0, aborted |-> FALSE, events |-> << >>]

\* this.heightMap = null; this.indexes = null;
Dispose ==
    /\ last.op = "idle"
    /\ heightMap' = << >>
    /\ indexes' = EmptyIndexes
    /\ disposed' = TRUE
    /\ last' = Done("dispose", NoArgs, Returned)

\* What a call on a disposed map does: it throws a TypeError where it first
\* reads a member of this.heightMap or of this.indexes.
onDisposed(op, args) ==
    CASE op = "insert" -> Thrown(0)
      [] op = "remove" -> IF Len(args.ids) = 0 THEN Returned ELSE Thrown(1)
      [] op = "refresh" -> IF Len(args.items) = 0 THEN Returned ELSE Thrown(1)
      \* the comparator is first called for an array of two elements
      [] op = "refreshSet" -> IF Cardinality(args.set) = 0 THEN Returned
                              ELSE IF Cardinality(args.set) = 1 THEN Thrown(1)
                              ELSE Thrown(0)
      [] op = "indexAt" -> Thrown(0)
      [] op = "withItemsInRange" -> Thrown(0)

DisposedCalls ==
    {[op |-> "insert", args |-> [NoArgs EXCEPT !.items = items, !.afterItemId = afterItemId]] :
        items \in ItemSeqs(Ids, MaxItems), afterItemId \in Ids \cup {Null}}
    \cup {[op |-> "remove", args |-> [NoArgs EXCEPT !.ids = ids]] : ids \in SeqsUpTo(Ids, MaxItems)}
    \cup {[op |-> "refresh", args |-> [NoArgs EXCEPT !.items = items]] :
             items \in ItemSeqs(Ids, MaxItems)}
    \cup {[op |-> "refreshSet", args |-> [NoArgs EXCEPT !.set = Range(items)]] :
             items \in ItemSeqs(Ids, MaxItems)}
    \cup {[op |-> "indexAt", args |-> [NoArgs EXCEPT !.position = position]] :
             position \in (0 - 1)..1}
    \cup {[op |-> "withItemsInRange", args |-> [NoArgs EXCEPT !.position = start, !.end = end]] :
             start \in (0 - 1)..1, end \in 0..1}

\* Any call after dispose().
UseDisposed ==
    /\ last.op = "idle"
    /\ disposed
    /\ \E call \in DisposedCalls :
          last' = Done(call.op, call.args, onDisposed(call.op, call.args))
    /\ UNCHANGED <<heightMap, indexes, disposed>>

Next ==
    \/ InsertItems
    \/ RemoveItems
    \/ RefreshItems
    \/ RefreshItemSet
    \/ IndexAt
    \/ WithItemsInRange
    \/ Dispose
    \/ UseDisposed
    \/ Return

Spec == Init /\ [][Next]_vars

----------------------------------------------------------------------------
\* The loop of indexAt, one iteration per step.  `last` holds the local
\* variables of the call: position, left, right, and the result once the
\* loop has been left (pc = "done").

\* Mutant: no break on left === center.
SearchStep_NoBreak(hm, position, left, right) ==
    IF left < right
    THEN LET center == (left + right) \div 2
             item == hm[center + 1]
         IN  IF position < item.top
             THEN [pc |-> "loop", left |-> left, right |-> center, ret |-> Undefined]
             ELSE IF position >= item.top + item.height
                  THEN [pc |-> "loop", left |-> center, right |-> right, ret |-> Undefined]
                  ELSE [pc |-> "done", left |-> left, right |-> right, ret |-> center]
    ELSE [pc |-> "done", left |-> left, right |-> right, ret |-> Len(hm)]

\* One evaluation of `while (left < right) { ... }`, or the return behind it.
SearchStep(hm, position, left, right) ==
    IF left < right
    THEN LET center == (left + right) \div 2
             item == hm[center + 1]
         IN  IF position < item.top
             THEN [pc |-> "loop", left |-> left, right |-> center, ret |-> Undefined]
             ELSE IF position >= item.top + item.height
                  THEN IF left = center
                       THEN [pc |-> "done", left |-> left, right |-> right, ret |-> Len(hm)]
                       ELSE [pc |-> "loop", left |-> center, right |-> right, ret |-> Undefined]
                  ELSE [pc |-> "done", left |-> left, right |-> right, ret |-> center]
    ELSE [pc |-> "done", left |-> left, right |-> right, ret |-> Len(hm)]

\* The sequence that holds the given items in order, the first at offset 0.
RowsOf(items) ==
    [s \in 1..Len(items) |->
        [id |-> items[s].id,
         top |-> IF s = 1 THEN 0
                 ELSE LET RECURSIVE Sum(_)
                          Sum(m) == IF m = 0 THEN 0 ELSE items[m].height + Sum(m - 1)
                      IN  Sum(s - 1),
         height |-> items[s].height]]

\* indexes as the renumbering loops leave it: the id of every row, mapped to
\* the highest slot that holds it.
IndexOf(hm) ==
    [id \in {hm[k].id : k \in 1..Len(hm)} |->
        CHOOSE s \in 0..(Len(hm) - 1) :
            /\ hm[s + 1].id = id
            /\ \A t \in 0..(Len(hm) - 1) : hm[t + 1].id = id => t <= s]

\* indexAt is called with any position on any sequence of up to MaxRows
\* contiguous rows, heights of 0 included.
SearchInit ==
    \E items \in SeqsUpTo(Items, MaxRows) :
        \E position \in (0 - 1)..(MaxRows * MaxHeight + 1) :
            /\ position <= getTotalHeight(RowsOf(items)) + 1
            /\ heightMap = RowsOf(items)
            /\ indexes = IndexOf(RowsOf(items))
            /\ last = [op |-> "indexAt", position |-> position, pc |-> "loop",
                       left |-> 0, right |-> Len(items), ret |-> Undefined]
            /\ disposed = FALSE

SearchIteration ==
    /\ last.pc = "loop"
    /\ LET step == SearchStep(heightMap, last.position, last.left, last.right)
       IN  last' = [last EXCEPT !.pc = step.pc, !.left = step.left,
                                !.right = step.right, !.ret = step.ret]
    /\ UNCHANGED <<heightMap, indexes, disposed>>

\* The loop is synchronous code: an iteration that can be made is made.
SearchSpec == SearchInit /\ [][SearchIteration]_vars /\ WF_vars(SearchIteration)

----------------------------------------------------------------------------
\* Vocabulary of the properties.

Row(hm, s) == hm[s + 1]

Slots(hm) == 0..(Len(hm) - 1)

\* The summed height of the rows in slots lo .. hi - 1.
RECURSIVE SumHeights(_, _, _)
SumHeights(hm, lo, hi) ==
    IF lo >= hi THEN 0 ELSE hm[lo + 1].height + SumHeights(hm, lo + 1, hi)

Contiguous(hm) ==
    \A s \in Slots(hm) : s + 1 < Len(hm) => Row(hm, s + 1).top = Row(hm, s).top + Row(hm, s).height

InWindow(hm, s, p) == Row(hm, s).top <= p /\ p < Row(hm, s).top + Row(hm, s).height

RowIds(hm) == {hm[k].id : k \in 1..Len(hm)}

Mutation == {"insert", "remove", "refresh", "refreshSet"}

----------------------------------------------------------------------------
\* C1. Contiguity (I1): after every call of onInsertItems, onRemoveItems (on a
\* contiguous run, or aborting), onRefreshItems or onRefreshItemSet, each row
\* starts where the row before it ends, rows of height 0 included.
C1_Contiguity == ~disposed => Contiguous(heightMap)

\* A remove has aborted on a sequence of three rows, one of them of height 0.
C1_Witness ==
    /\ last.op = "remove" /\ last.aborted
    /\ Len(heightMap) = 3
    /\ \E s \in Slots(heightMap) : Row(heightMap, s).height = 0

\* C2. Index consistency (I2): after every completed insert, remove or
\* refresh, indexes maps the id of the row of every slot to that slot and has
\* no other keys, whatever the heights of the rows.
C2_IndexConsistency ==
    (~disposed /\ last.op \in Mutation /\ ~last.aborted) =>
        /\ \A s \in Slots(heightMap) : Lookup(indexes, Row(heightMap, s).id) = s
        /\ DOMAIN indexes = RowIds(heightMap)

\* C4. indexAt(p) is the one slot whose window [top, top + height) holds p
\* when 0 <= p < getTotalHeight(), and the number of rows when
\* p >= getTotalHeight() (the empty sequence included), on every contiguous
\* sequence that starts at offset 0.
C4_IndexAt ==
    (/\ ~disposed
     /\ last.op = "indexAt"
     /\ Contiguous(heightMap)
     /\ Len(heightMap) > 0 => Row(heightMap, 0).top = 0
     /\ last.args.position >= 0) =>
        LET p == last.args.position
        IN  IF p < getTotalHeight(heightMap)
            THEN /\ HasSlot(heightMap, last.ret)
                 /\ InWindow(heightMap, last.ret, p)
                 /\ \A s \in Slots(heightMap) : InWindow(heightMap, s, p) => s = last.ret
            ELSE last.ret = Len(heightMap)

\* indexAt has found the last of three rows at its top boundary, behind a row
\* of height 0.
C4_Witness ==
    /\ last.op = "indexAt"
    /\ Len(heightMap) = 3
    /\ last.ret = 2
    /\ Row(heightMap, 1).height = 0
    /\ last.args.position = Row(heightMap, 2).top

\* C8. Every row's top is the summed height of the rows in lower slots, and
\* getTotalHeight() is the summed height of all rows (0 when there is none).
C8_Offsets ==
    ~disposed =>
        /\ \A s \in Slots(heightMap) : Row(heightMap, s).top = SumHeights(heightMap, 0, s)
        /\ getTotalHeight(heightMap) = SumHeights(heightMap, 0, Len(heightMap))

\* A remove has taken rows away in front of a row that is now at offset 0
\* with a positive height.
C8_Witness ==
    /\ last.op = "remove" /\ ~last.aborted
    /\ Len(last.events) > Len(last.args.ids)
    /\ Len(heightMap) >= 1
    /\ getTotalHeight(heightMap) > 0

\* The summed height of the first m items of an input.
RECURSIVE ItemHeights(_, _)
ItemHeights(items, m) ==
    IF m = 0 THEN 0 ELSE items[m].height + ItemHeights(items, m - 1)

\* The first position of ids whose id is no key of idx once the ids before
\* it have been deleted; 0 when there is none.
FirstAbsent(idx, ids) ==
    LET absent == {k \in 1..Len(ids) :
                      \/ ids[k] \notin DOMAIN idx
                      \/ \E m \in 1..(k - 1) : ids[m] = ids[k]}
    IN  IF absent = {} THEN 0
        ELSE CHOOSE k \in absent : \A m \in absent : k <= m

\* The items of a refresh call, of either entry point.
Refreshed(l) == IF l.op = "refresh" THEN Range(l.args.items) ELSE l.args.set

\* C3. A completed onRemoveItems on a contiguous run of present ids takes
\* exactly those rows out: the rows before the run are unchanged, the rows
\* behind it follow in order with their top reduced by the removed height,
\* and no removed id is left in the sequence or in indexes; also when all
\* removed rows have height 0.
C3_RemoveRun ==
    [][(~disposed /\ last.op = "idle" /\ last'.op = "remove" /\ ~last'.aborted) =>
        LET ids == last'.args.ids
            k == Len(ids)
            s0 == IF k = 0 THEN 0 ELSE indexes[ids[1]]
            gone == SumHeights(heightMap, s0, s0 + k)
        IN  /\ Len(heightMap') = Len(heightMap) - k
            /\ \A s \in Slots(heightMap') :
                  Row(heightMap', s) =
                      IF s < s0 THEN Row(heightMap, s)
                      ELSE [Row(heightMap, s + k) EXCEPT !.top = @ - gone]
            /\ \A m \in 1..k :
                  ids[m] \notin DOMAIN indexes' /\ ids[m] \notin RowIds(heightMap')
      ]_vars

\* C5. Insert/remove inverse: inserting new rows (any anchor, any heights,
\* 0 included) and then removing exactly their ids in the same order gives
\* back the sequence and the index of before the insert.
C5_InsertRemoveInverse ==
    (~disposed /\ last.op = "idle") =>
        \A items \in InsertInputs, afterItemId \in Ids \cup {Null} :
            LET ins == onInsertItems(heightMap, indexes, items, afterItemId)
                rem == onRemoveItems(ins.hm, ins.idx, IdsOf(items))
            IN  ~ins.aborted => (rem.hm = heightMap /\ rem.idx = indexes)

\* C6. onRemoveItems that meets an id absent from indexes after k present
\* ids stops there: the sequence is as before the call, indexes has lost
\* exactly those k ids, the remove hook was called for exactly their rows in
\* order, and the refresh hook was not called.
C6_RemoveAbort ==
    [][(~disposed /\ last.op = "idle" /\ last'.op = "remove"
        /\ FirstAbsent(indexes, last'.args.ids) > 0) =>
        LET ids == last'.args.ids
            k == FirstAbsent(indexes, ids) - 1
            processed == {ids[m] : m \in 1..k}
        IN  /\ last'.aborted
            /\ last'.consumed = k + 1
            /\ heightMap' = heightMap
            /\ indexes' = [x \in (DOMAIN indexes) \ processed |-> indexes[x]]
            /\ Len(last'.events) = k
            /\ \A m \in 1..k :
                  LET e == last'.events[m]
                      row == Row(heightMap, indexes[ids[m]])
                  IN  /\ e.hook = "remove"
                      /\ e.slot = indexes[ids[m]]
                      /\ <<e.id, e.top, e.height>> = <<ids[m], row.top, row.height>>
      ]_vars

\* A remove has stopped at a missing id after it had processed one present
\* row of positive height.
C6_Witness ==
    /\ last.op = "remove" /\ last.aborted
    /\ last.consumed = 2
    /\ Len(last.events) = 1
    /\ last.events[1].height > 0
    /\ Len(heightMap) >= 2

\* C7. onInsertItems with an afterItemId that is no key of indexes changes
\* neither the sequence nor indexes, makes no create, insert or refresh
\* notification, takes nothing from its iterator and returns undefined.
C7_InsertAbort ==
    [][(~disposed /\ last.op = "idle" /\ last'.op = "insert"
        /\ last'.args.afterItemId # Null
        /\ last'.args.afterItemId \notin DOMAIN indexes) =>
        /\ heightMap' = heightMap
        /\ indexes' = indexes
        /\ last'.events = << >>
        /\ last'.consumed = 0
        /\ last'.ret = Undefined
        /\ last'.aborted
      ]_vars

\* An insert of two items after an unknown id has been refused on a sequence
\* that has rows.
C7_Witness ==
    /\ last.op = "insert" /\ last.aborted
    /\ Len(last.args.items) = 2
    /\ Len(heightMap) >= 1
    /\ last.args.afterItemId \notin DOMAIN indexes

\* C9. Minimal-touch refresh: refreshing one present item whose height
\* changed by d leaves the rows before it as they were, keeps the row's own
\* top and sets its height to the item's height, and moves every row behind
\* it by exactly d without changing its height; no slot changes.
C9_RefreshOne ==
    [][(~disposed /\ last.op = "idle" /\ last'.op \in {"refresh", "refreshSet"}
        /\ Cardinality(Refreshed(last')) = 1) =>
        LET item == CHOOSE x \in Refreshed(last') : TRUE
            i == indexes[item.id]
            d == item.height - Row(heightMap, i).height
        IN  /\ Len(heightMap') = Len(heightMap)
            /\ indexes' = indexes
            /\ \A s \in Slots(heightMap) :
                  Row(heightMap', s) =
                      IF s < i THEN Row(heightMap, s)
                      ELSE IF s = i THEN [Row(heightMap, s) EXCEPT !.height = item.height]
                      ELSE [Row(heightMap, s) EXCEPT !.top = @ + d]
      ]_vars

\* The middle one of three rows has been refreshed to another height, and
\* the row behind it has been told that it moved.
C9_Witness ==
    /\ last.op = "refresh"
    /\ Len(last.args.items) = 1
    /\ Len(heightMap) = 3
    /\ Len(last.events) = 2
    /\ last.events[1].slot = 1 /\ last.events[1].needsRender
    /\ last.events[2].slot = 2 /\ ~last.events[2].needsRender

\* C10. A successful onInsertItems of k items returns their summed height,
\* puts the new rows at slots i .. i + k - 1 in input order, each at the base
\* offset plus the height of the new rows before it, and makes
\* getTotalHeight() grow by the returned value; with no items it returns 0
\* and changes nothing.
C10_Insert ==
    [][(~disposed /\ last.op = "idle" /\ last'.op = "insert" /\ ~last'.aborted) =>
        LET items == last'.args.items
            k == Len(items)
            afterItemId == last'.args.afterItemId
            i == IF afterItemId = Null THEN 0 ELSE indexes[afterItemId] + 1
            base == IF afterItemId = Null THEN 0
                    ELSE Row(heightMap, i - 1).top + Row(heightMap, i - 1).height
        IN  /\ last'.ret = ItemHeights(items, k)
            /\ Len(heightMap') = Len(heightMap) + k
            /\ \A m \in 1..k :
                  Row(heightMap', i + m - 1) =
                      [id |-> items[m].id, top |-> base + ItemHeights(items, m - 1),
                       height |-> items[m].height]
            /\ getTotalHeight(heightMap') = getTotalHeight(heightMap) + last'.ret
            /\ k = 0 => (last'.ret = 0 /\ heightMap' = heightMap /\ indexes' = indexes)
      ]_vars

\* C11. withItemsInRange(startPos, endPos, fn) with startPos <= endPos calls
\* fn once for each slot from indexAt(startPos) through indexAt(endPos), in
\* ascending order, with the id of the row of that slot, and reads existing
\* slots only; also when endPos >= getTotalHeight() and on the empty sequence.
C11_WithItemsInRange ==
    (~disposed /\ last.op = "withItemsInRange") =>
        LET first == indexAt(heightMap, last.args.position)
            final == indexAt(heightMap, last.args.end)
        IN  /\ ~last.aborted
            /\ \A k \in 1..Len(last.events) :
                  /\ HasSlot(heightMap, last.events[k].slot)
                  /\ last.events[k].slot = first + k - 1
                  /\ last.events[k].id = Row(heightMap, first + k - 1).id
            /\ Len(last.events) = IF final >= first THEN final - first + 1 ELSE 0

\* C12. Identity uniqueness: as onInsertItems is only given ids that are no
\* keys of indexes (and are distinct within a call), no two rows of the
\* sequence carry the same id.
C12_UniqueIds ==
    ~disposed =>
        \A a, b \in Slots(heightMap) :
            a # b => Row(heightMap, a).id # Row(heightMap, b).id

\* The calls of one hook in the record of a call, in the order they were made.
Calls(l, hook) == SelectSeq(l.events, LAMBDA e : e.hook = hook)

\* The position in the record of a call of the m-th call of a hook.
PositionOf(l, hook, m) ==
    CHOOSE n \in 1..Len(l.events) :
        /\ l.events[n].hook = hook
        /\ Len(SelectSeq(SubSeq(l.events, 1, n), LAMBDA e : e.hook = hook)) = m

\* The slot at which a successful insert puts its first row.
InsertionSlot(idx, afterItemId) ==
    IF afterItemId = Null THEN 0 ELSE idx[afterItemId] + 1

\* The refresh hook calls of a successful insert are one for each row behind
\* the new rows and for no other row, made after every row-created
\* notification, each seeing the row as it is after the call; `order` maps
\* the m-th call of n to its distance from the first shifted slot.
InsertRefreshCalls(order(_, _)) ==
    LET k == Len(last'.args.items)
        i == InsertionSlot(indexes, last'.args.afterItemId) + k
        refresh == Calls(last', "refresh")
        n == Len(heightMap') - i
    IN  /\ Len(refresh) = n
        /\ SubSeq(last'.events, Len(last'.events) - n + 1, Len(last'.events)) = refresh
        /\ \A m \in 1..n :
              /\ refresh[m].slot = i + order(m, n)
              /\ refresh[m].id = Row(heightMap', refresh[m].slot).id
              /\ refresh[m].top = Row(heightMap', refresh[m].slot).top

Ascending(m, n) == m - 1

Descending(m, n) == n - m

\* C13 as claimed. After the new rows were created, onInsertItems calls the
\* refresh hook once for every pre-existing row at or after the insertion
\* point, in ascending slot order, and for no other row.
C13_RefreshAscending ==
    [][(~disposed /\ last.op = "idle" /\ last'.op = "insert" /\ ~last'.aborted) =>
        InsertRefreshCalls(Ascending)]_vars

\* C13 as amended. After the new rows were created, onInsertItems calls the
\* refresh hook once for every pre-existing row at or after the insertion
\* point and for no other row, in descending slot order: from the end of the
\* sequence down to the first shifted slot.
C13_RefreshDescending ==
    [][(~disposed /\ last.op = "idle" /\ last'.op = "insert" /\ ~last'.aborted) =>
        InsertRefreshCalls(Descending)]_vars

\* One row has been inserted in front of two rows, and the refresh hook has
\* been called for both of them, the last row first.
C13_Witness ==
    /\ last.op = "insert" /\ ~last.aborted
    /\ Len(last.args.items) = 1
    /\ Len(heightMap) = 3
    /\ Len(Calls(last, "refresh")) = 2
    /\ Calls(last, "refresh")[1].slot = 2
    /\ Calls(last, "refresh")[2].slot = 1

\* C14 as claimed. The row-created notification is delivered once per new
\* row in input order during the scan of the input, both as the event
\* 'viewItem:create' and as the hook onInsertItem: the notifications of a
\* row come before those of the next row.
C14_CreatedInOrder ==
    (~disposed /\ last.op = "insert" /\ ~last.aborted) =>
        LET items == last.args.items
            k == Len(items)
        IN  /\ IdsOf(Calls(last, "create")) = IdsOf(items)
            /\ IdsOf(Calls(last, "insert")) = IdsOf(items)
            /\ \A m \in 1..(k - 1) :
                  /\ PositionOf(last, "create", m) < PositionOf(last, "create", m + 1)
                  /\ PositionOf(last, "insert", m) < PositionOf(last, "create", m + 1)
                  /\ PositionOf(last, "insert", m) < PositionOf(last, "insert", m + 1)

\* C14 as amended. The event 'viewItem:create' is delivered once per new row
\* in input order during the scan of the input; the hook onInsertItem is
\* called once per new row only after the scan, the splice and the shift of
\* the existing rows, in reverse input order, and before the refresh hooks.
C14_CreatedThenInsertedReversed ==
    (~disposed /\ last.op = "insert" /\ ~last.aborted) =>
        LET items == last.args.items
            k == Len(items)
        IN  /\ Len(last.events) >= 2 * k
            /\ \A m \in 1..k :
                  /\ last.events[m].hook = "create"
                  /\ last.events[m].id = items[m].id
                  /\ last.events[k + m].hook = "insert"
                  /\ last.events[k + m].id = items[k - m + 1].id
                  /\ last.events[k + m].slot = last.events[k - m + 1].slot
                  /\ Row(heightMap, last.events[k + m].slot).id = items[k - m + 1].id
            /\ \A n \in (2 * k + 1)..Len(last.events) : last.events[n].hook = "refresh"

\* Two rows have been inserted in front of an existing row: two create
\* events, two onInsertItem calls and one refresh call.
C14_Witness ==
    /\ last.op = "insert" /\ ~last.aborted
    /\ Len(last.args.items) = 2
    /\ Len(heightMap) = 3
    /\ Len(last.events) = 5
    /\ last.events[3].hook = "insert"
    /\ last.events[3].id = last.args.items[2].id

\* C15. A successful onRemoveItems calls the remove hook once per removed row
\* in input order, before any refresh hook; then it calls the refresh hook
\* once for each remaining row at or after startIndex, in ascending slot
\* order, each call seeing the row's final top and its final slot in indexes.
C15_RemoveHooks ==
    [][(~disposed /\ last.op = "idle" /\ last'.op = "remove" /\ ~last'.aborted) =>
        LET ids == last'.args.ids
            k == Len(ids)
            s0 == IF k = 0 THEN Len(heightMap) ELSE indexes[ids[1]]
            n == Len(heightMap) - (s0 + k)
            events == last'.events
        IN  /\ Len(events) = k + n
            /\ \A m \in 1..k :
                  /\ events[m].hook = "remove"
                  /\ events[m].id = ids[m]
                  /\ events[m].slot = indexes[ids[m]]
            /\ \A m \in 1..n :
                  LET e == events[k + m]
                  IN  /\ e.hook = "refresh"
                      /\ e.slot = s0 + m - 1
                      /\ e.id = Row(heightMap, s0 + k + m - 1).id
                      /\ HasSlot(heightMap', e.slot)
                      /\ e.id = Row(heightMap', e.slot).id
                      /\ e.top = Row(heightMap', e.slot).top
                      /\ e.index = e.slot
      ]_vars

\* C16. A successful onInsertItems of k rows at slot i changes nothing before
\* slot i and shifts what is behind uniformly: a pre-existing row of a slot
\* < i keeps its top, height and index entry; a pre-existing row of a slot
\* >= i keeps its height, has its top increased by the summed height of the
\* new rows and its index entry increased by k.
C16_InsertFrame ==
    [][(~disposed /\ last.op = "idle" /\ last'.op = "insert" /\ ~last'.aborted) =>
        LET items == last'.args.items
            k == Len(items)
            i == InsertionSlot(indexes, last'.args.afterItemId)
            grown == ItemHeights(items, k)
        IN  /\ Len(heightMap') = Len(heightMap) + k
            /\ \A s \in Slots(heightMap) :
                  LET old == Row(heightMap, s)
                  IN  IF s < i
                      THEN /\ Row(heightMap', s) = old
                           /\ Lookup(indexes', old.id) = Lookup(indexes, old.id)
                      ELSE /\ Row(heightMap', s + k) = [old EXCEPT !.top = @ + grown]
                           /\ Lookup(indexes', old.id) = Lookup(indexes, old.id) + k
      ]_vars

\* The slots of the items of a refresh call.
GivenSlots(idx, items) == {idx[items[m].id] : m \in 1..Len(items)}

\* The summed height change of the first m items that sit in a slot below s.
RECURSIVE DeltaBelow(_, _, _, _, _)
DeltaBelow(hm, idx, items, m, s) ==
    IF m = 0 THEN 0
    ELSE DeltaBelow(hm, idx, items, m - 1, s)
         + (IF idx[items[m].id] < s
            THEN items[m].height - Row(hm, idx[items[m].id]).height
            ELSE 0)

\* C17. After onRefreshItems on distinct present items in ascending slot
\* order, contiguous or not, each given row has its item's height, every
\* other row keeps its height, no slot or index entry changes, and every
\* row's top has changed by the summed height change of the given rows in
\* strictly lower slots, also when the changes cancel part-way.
C17_RefreshOrdered ==
    [][(~disposed /\ last.op = "idle" /\ last'.op = "refresh") =>
        LET items == last'.args.items
        IN  /\ Len(heightMap') = Len(heightMap)
            /\ indexes' = indexes
            /\ \A s \in Slots(heightMap) :
                  LET old == Row(heightMap, s)
                      new == Row(heightMap', s)
                  IN  /\ new.id = old.id
                      /\ new.top = old.top + DeltaBelow(heightMap, indexes, items, Len(items), s)
                      /\ new.height =
                            IF s \in GivenSlots(indexes, items)
                            THEN (CHOOSE x \in Range(items) : indexes[x.id] = s).height
                            ELSE old.height
      ]_vars

\* The first and the last of three rows have been refreshed in one call and
\* the row between them has been moved by the change of the first.
C17_Witness ==
    /\ last.op = "refresh"
    /\ Len(last.args.items) = 2
    /\ Len(heightMap) = 3
    /\ Len(last.events) = 3
    /\ last.events[1].needsRender /\ last.events[1].slot = 0
    /\ ~last.events[2].needsRender /\ last.events[2].slot = 1
    /\ last.events[3].needsRender /\ last.events[3].slot = 2

\* C18. One onRefreshItems call on distinct present items in ascending slot
\* order calls the refresh hook at most once per row and in ascending slot
\* order: with needsRender = true for exactly the given items (also when
\* their height did not change), with needsRender = false for exactly the
\* other rows whose top changed, and not for any other row.
C18_RefreshHooks ==
    [][(~disposed /\ last.op = "idle" /\ last'.op = "refresh") =>
        LET items == last'.args.items
            events == last'.events
            given == GivenSlots(indexes, items)
            moved == {s \in Slots(heightMap) \ given :
                         Row(heightMap', s).top # Row(heightMap, s).top}
        IN  /\ \A n \in 1..Len(events) : events[n].hook = "refresh"
            /\ \A n \in 1..(Len(events) - 1) : events[n].slot < events[n + 1].slot
            /\ {events[n].slot : n \in {x \in 1..Len(events) : events[x].needsRender}} = given
            /\ {events[n].slot : n \in {x \in 1..Len(events) : ~events[x].needsRender}} = moved
      ]_vars

\* The middle one of three rows has been refreshed to the height it had:
\* one hook call, with needsRender, and none for the rows around it.
C18_Witness ==
    /\ last.op = "refresh"
    /\ Len(last.args.items) = 1
    /\ Len(heightMap) = 3
    /\ Len(last.events) = 1
    /\ last.events[1].slot = 1
    /\ last.events[1].needsRender

\* onRefreshItems once per item, one item at a time, in the order of `items`.
RECURSIVE OneByOne(_, _, _, _)
OneByOne(hm, idx, items, k) ==
    IF k > Len(items) THEN hm
    ELSE OneByOne(onRefreshItems(hm, idx, <<items[k]>>).hm, idx, items, k + 1)

\* The orders in which a set of items can be given.
Orders(set) ==
    {q \in [1..Cardinality(set) -> set] : \A x \in set : \E m \in DOMAIN q : q[m] = x}

\* C19. Batch refresh equals sequential refresh: one onRefreshItems call on
\* distinct present items in ascending slot order, and onRefreshItemSet on
\* the same items in any order, end in the same sequence and index as
\* onRefreshItems called once per item.
C19_BatchIsSequential ==
    [][(~disposed /\ last.op = "idle" /\ last'.op \in {"refresh", "refreshSet"}) =>
        /\ indexes' = indexes
        /\ last'.op = "refresh" =>
              heightMap' = OneByOne(heightMap, indexes, last'.args.items, 1)
        /\ last'.op = "refreshSet" =>
              \A q \in Orders(last'.args.set) :
                  heightMap' = OneByOne(heightMap, indexes, q, 1)
      ]_vars

\* onRefreshItemSet has refreshed two of three rows and moved the third.
C19_Witness ==
    /\ last.op = "refreshSet"
    /\ Cardinality(last.args.set) = 2
    /\ Len(heightMap) = 3
    /\ Len(last.events) = 3
    /\ \E n \in 1..3 : ~last.events[n].needsRender

\* The loop of indexAt, run step by step, returns what indexAt returns.
SearchStepIsSearch ==
    last.pc = "done" => last.ret = indexAt(heightMap, last.position)

\* C20. The binary-search loop of indexAt terminates for every position
\* (negative, inside, on a boundary, past the end) and every sequence, rows
\* of height 0 and the empty sequence included: each iteration returns,
\* breaks on left == center, or strictly shrinks right - left; and n is
\* returned only when no row's window [top, top + height) holds the position.
C20_SearchTerminates ==
    /\ [][last.pc = "loop" =>
            \/ last'.pc = "done"
            \/ last'.right - last'.left < last.right - last.left]_vars
    /\ [](last.pc = "done" =>
            /\ last.ret \in 0..Len(heightMap)
            /\ last.ret = Len(heightMap) =>
                  \A s \in Slots(heightMap) : ~InWindow(heightMap, s, last.position))
    /\ <>(last.pc = "done")

\* The loop has narrowed to the last of three rows, one of height 0 among
\* them, and has left by the break with the position past the end.
C20_Witness ==
    /\ last.pc = "done"
    /\ Len(heightMap) = 3
    /\ \E s \in Slots(heightMap) : Row(heightMap, s).height = 0
    /\ last.position >= getTotalHeight(heightMap)
    /\ last.ret = 3
    /\ last.left = 2 /\ last.right = 3

====
